---- MODULE Spec2Model ----
(***************************************************************************)
(* A model of kernel_tuner (src/kernel_tuner/interface.py) and of the      *)
(* OpenCL backend it drives (src/kernel_tuner/opencl.py).                  *)
(*                                                                         *)
(* Texts (Python str) are sequences of pieces.  A piece is one character   *)
(* (a digit, "_", ".") or one atomic word that the model never splits (a   *)
(* parameter name, "True", a backend phrase).  Concatenation is \o and the *)
(* Python test `a in b` is contiguous containment of piece sequences.      *)
(*                                                                         *)
(* Numbers are records [t, p, q, lo]: t is the Python type ("int", "float", *)
(* "bool") and p/q the value, q > 0.  A float is written as its repr(): p/q  *)
(* is the decimal of its first 12 significant digits and lo the number the *)
(* remaining digits spell (0.1 + 0.2 = 0.30000000000000004 is p/q = 3/10,  *)
(* lo = 4; 0.3 is p/q = 3/10, lo = 0); lo is 0 for ints and bools, and     *)
(* arithmetic is only applied to numbers with lo = 0.  The source is       *)
(* Python 2 (src/test/test_kernel_tuner.py:43 is a print statement): "/"   *)
(* on two ints is floor division and str() of a float keeps 12             *)
(* significant digits.                                                     *)
(***************************************************************************)
EXTENDS Integers, Sequences, FiniteSets, TLC

VARIABLES
    \* ---- inputs of tune_kernel (fixed for one sweep)
    tune_params,      \* sequence of [k |-> name, vs |-> candidate values]
    restrictions,     \* NoList or List of expressions
    answer,           \* TRUE when an answer list was supplied
    grid_div_x,       \* NoList or List of expressions
    grid_div_y,       \* NoList or List of expressions
    cmem_args,        \* TRUE when constant memory arguments were supplied
    max_threads,      \* dev.max_threads
    lang,             \* the language after _detect_language
    \* ---- state of tune_kernel
    pc,               \* position in tune_kernel
    parameter_space,  \* the list built at line 290 and pruned at line 301
    fi,               \* index of the filter loop over parameter_space[:]
    idx,              \* index of the main loop over parameter_space
    func,             \* what dev.compile returned for the current element
    time,             \* what dev.benchmark returned for the current element
    results,          \* the dict results: a set of [key, time], keys unique
    error,            \* message of the exception that left tune_kernel, or None
    gpu_args,         \* None until dev.ready_argument_list has returned
    \* ---- history of the sweep (observation only, never read by an action)
    log,              \* sequence of events [i, ev, msg, t]
    \* ---- a pure function applied to drawn inputs
    fn_pc,            \* "call" before the call, "done" after it, "idle"
    fn_args,          \* the arguments of the call
    fn_ret,           \* its return value once fn_pc = "done"
    \* ---- a call of a device-level function (benchmark, run_kernel, verifier)
    dev_pc,           \* position in the function, "idle" when none is running
    dev_i,            \* index of the loop over the arguments
    dev_err,          \* message of the exception that left the function, or None
    arguments,        \* the host arguments: [array, itemsize, data]
    expected,         \* the answer list: [present, data]
    device_args,      \* gpu_args: device buffers and scalars passed by value
    staged,           \* device_args as they were when the function was entered
    host_out,         \* the host arrays the function fills (results, result_host)
    launches,         \* number of kernel launches so far
    correct,          \* the flag of _check_kernel_correctness
    ITERATIONS,       \* self.ITERATIONS
    profile,          \* the durations (ns) the device reports, launch by launch
    times,            \* the list times of benchmark
    bench_ret         \* what benchmark returned

vars == <<tune_params, restrictions, answer, grid_div_x, grid_div_y, cmem_args,
          max_threads, lang, pc,
          parameter_space, fi, idx, func, time, results, error, gpu_args, log,
          fn_pc, fn_args, fn_ret,
          dev_pc, dev_i, dev_err, arguments, expected, device_args, staged,
          host_out, launches, correct, ITERATIONS, profile, times, bench_ret>>

sweepVars == <<tune_params, restrictions, answer, grid_div_x, grid_div_y,
               cmem_args, max_threads, lang, pc,
               parameter_space, fi, idx, func, time, results, error, gpu_args, log>>

inputVars == <<tune_params, restrictions, answer, grid_div_x, grid_div_y,
               cmem_args, max_threads, lang>>

fnVars == <<fn_pc, fn_args, fn_ret>>

devVars == <<dev_pc, dev_i, dev_err, arguments, expected, device_args, staged,
             host_out, launches, correct, ITERATIONS, profile, times, bench_ret>>

benchVars == <<ITERATIONS, profile, times, bench_ret>>

memVars == <<arguments, expected, device_args, staged, host_out, correct>>

None == <<"None">>

\* an optional list argument: None, or the list l
NoList == [none |-> TRUE, l |-> <<>>]
List(l) == [none |-> FALSE, l |-> l]

\* numpy.mean: nan for an empty list, num/den otherwise
NaN == [nan |-> TRUE, num |-> 0, den |-> 1]

\* no device-level function is running
DeviceIdle ==
    /\ dev_pc = "idle" /\ dev_i = 0 /\ dev_err = None
    /\ arguments = <<>> /\ expected = <<>> /\ device_args = <<>> /\ staged = <<>>
    /\ host_out = <<>> /\ launches = 0 /\ correct = TRUE
    /\ ITERATIONS = 0 /\ profile = <<>> /\ times = <<>> /\ bench_ret = NaN

(***************************************************************************)
(* Numbers                                                                 *)
(***************************************************************************)
PyInt(n) == [t |-> "int", p |-> n, q |-> 1, lo |-> 0]
PyFloat(a, b) == [t |-> "float", p |-> a, q |-> b, lo |-> 0]
PyFloatLo(a, b, lo) == [t |-> "float", p |-> a, q |-> b, lo |-> lo]
PyBool(b) == [t |-> "bool", p |-> IF b THEN 1 ELSE 0, q |-> 1, lo |-> 0]
Raise == [t |-> "raise", p |-> 0, q |-> 1, lo |-> 0]

\* Python's == on numbers compares the values across int, float and bool.
PyEq(a, b) == a.p * b.q = b.p * a.q /\ a.lo = b.lo

\* Python's == on tuples: same length and pairwise ==.
TupleEq(a, b) ==
    /\ Len(a) = Len(b)
    /\ \A i \in 1..Len(a) : PyEq(a[i], b[i])

\* ceil(a / b) for a >= 0, b > 0
CeilDiv(a, b) == (a + b - 1) \div b

(***************************************************************************)
(* Texts                                                                   *)
(***************************************************************************)
DigitChars == <<"0", "1", "2", "3", "4", "5", "6", "7", "8", "9">>

IsDigit(c) == \E d \in 1..10 : DigitChars[d] = c

DigitVal(c) == (CHOOSE d \in 1..10 : DigitChars[d] = c) - 1

RECURSIVE Digits(_)
Digits(n) ==
    IF n < 10 THEN <<DigitChars[n + 1]>>
    ELSE Digits(n \div 10) \o <<DigitChars[(n % 10) + 1]>>

RECURSIVE DigitsVal(_)
DigitsVal(s) ==
    IF Len(s) = 0 THEN 0
    ELSE 10 * DigitsVal(SubSeq(s, 1, Len(s) - 1)) + DigitVal(s[Len(s)])

\* Python 2's str(float) formats with "%.12g" (PyFloat_STR_PRECISION)
StrPrecision == 12

\* the first n decimal digits of the fraction r/q, r < q, without trailing zeros
RECURSIVE FracDigits(_, _, _)
FracDigits(r, q, n) ==
    IF r = 0 \/ n = 0 THEN <<>>
    ELSE <<DigitChars[((r * 10) \div q) + 1]>> \o FracDigits((r * 10) % q, q, n - 1)

\* str(v) of a float: StrPrecision significant digits, so the digits counted by
\* lo are dropped; a whole value gets ".0"
StrFloat(v) ==
    LET ip == Digits(v.p \div v.q)
        r == v.p % v.q
    IN  IF r = 0 THEN ip \o <<".", "0">>
        ELSE ip \o <<".">>
                \o FracDigits(r, v.q, IF v.p < v.q THEN StrPrecision
                                       ELSE StrPrecision - Len(ip))

\* str(v) for a non-negative int, a bool or a float
Str(v) ==
    CASE v.t = "bool" -> IF v.p = 1 THEN <<"True">> ELSE <<"False">>
      [] v.t = "float" -> StrFloat(v)
      [] OTHER -> Digits(v.p)

RECURSIVE JoinFrom(_, _, _)
JoinFrom(texts, sep, i) ==
    IF i > Len(texts) THEN <<>>
    ELSE IF i = Len(texts) THEN texts[i]
    ELSE texts[i] \o sep \o JoinFrom(texts, sep, i + 1)

\* Python's `phrase in text`
Contains(text, phrase) ==
    \E i \in 1..(Len(text) - Len(phrase) + 1) :
        SubSeq(text, i, i + Len(phrase) - 1) = phrase

(***************************************************************************)
(* Expressions (restrictions and grid divisors) and Python's eval          *)
(*                                                                         *)
(* An expression string is a sequence of tokens, each token a text: a      *)
(* parameter name <<"block_size_x">>, a literal <<"3", "2">>, an operator  *)
(* <<"/">>.  eval is modelled on the grammar                               *)
(*     expr  ::= arith | arith cmp arith                                   *)
(*     arith ::= atom | atom ("/" | "*") atom                              *)
(* and raises on every other token sequence (SyntaxError) and on a name    *)
(* that is no literal (NameError).                                         *)
(***************************************************************************)
ArithOps == {<<"/">>, <<"*">>}
CmpOps == {<<"==">>, <<">">>, <<"<=">>}

IsNumberText(tok) ==
    /\ Len(tok) > 0
    /\ \A i \in 1..Len(tok) : IsDigit(tok[i])

\* digits "." digits
IsFloatText(tok) ==
    \E k \in 2..(Len(tok) - 1) :
        /\ tok[k] = "."
        /\ IsNumberText(SubSeq(tok, 1, k - 1))
        /\ IsNumberText(SubSeq(tok, k + 1, Len(tok)))

RECURSIVE Pow10(_)
Pow10(n) == IF n = 0 THEN 1 ELSE 10 * Pow10(n - 1)

\* the float a literal "digits.digits" denotes
FloatOfText(tok) ==
    LET k == CHOOSE i \in 2..(Len(tok) - 1) : tok[i] = "."
        frac == SubSeq(tok, k + 1, Len(tok))
        q == Pow10(Len(frac))
    IN  PyFloat(DigitsVal(SubSeq(tok, 1, k - 1)) * q + DigitsVal(frac), q)

\* eval of one atom: a literal gives its value, any other name a NameError
EvalAtom(tok) ==
    CASE tok = <<"True">> -> PyBool(TRUE)
      [] tok = <<"False">> -> PyBool(FALSE)
      [] IsNumberText(tok) -> PyInt(DigitsVal(tok))
      [] IsFloatText(tok) -> FloatOfText(tok)
      [] OTHER -> Raise

IsIntegral(v) == v.t \in {"int", "bool"}

\* Python 2 "/": floor division on two ints, true division otherwise
PyDiv(a, b) ==
    IF b.p = 0 THEN Raise
    ELSE IF IsIntegral(a) /\ IsIntegral(b) THEN PyInt(a.p \div b.p)
    ELSE PyFloat(a.p * b.q, a.q * b.p)

PyMul(a, b) ==
    IF IsIntegral(a) /\ IsIntegral(b) THEN PyInt(a.p * b.p)
    ELSE PyFloat(a.p * b.p, a.q * b.q)

PyCmp(op, a, b) ==
    CASE op = <<"==">> -> PyBool(a.p * b.q = b.p * a.q)
      [] op = <<">">> -> PyBool(a.p * b.q > b.p * a.q)
      [] op = <<"<=">> -> PyBool(a.p * b.q <= b.p * a.q)

EvalArith(toks) ==
    IF Len(toks) = 1 THEN EvalAtom(toks[1])
    ELSE IF Len(toks) = 3 /\ toks[2] \in ArithOps THEN
        LET a == EvalAtom(toks[1])
            b == EvalAtom(toks[3])
        IN  IF a = Raise \/ b = Raise THEN Raise
            ELSE IF toks[2] = <<"/">> THEN PyDiv(a, b)
            ELSE PyMul(a, b)
    ELSE Raise

\* Python's eval(string): a number, or Raise when evaluation raises
Eval(toks) ==
    LET cmps == {i \in 1..Len(toks) : toks[i] \in CmpOps}
    IN  IF cmps = {} THEN EvalArith(toks)
        ELSE IF Cardinality(cmps) > 1 THEN Raise
        ELSE LET i == CHOOSE j \in cmps : TRUE
                 a == EvalArith(SubSeq(toks, 1, i - 1))
                 b == EvalArith(SubSeq(toks, i + 1, Len(toks)))
             IN  IF a = Raise \/ b = Raise THEN Raise
                 ELSE PyCmp(toks[i], a, b)

\* string.replace(k, str(v)): every token that is the name k becomes str(v)
StrReplace(string, k, text) ==
    [i \in 1..Len(string) |-> IF string[i] = <<k>> THEN text ELSE string[i]]

RECURSIVE ReplaceFrom(_, _, _)
ReplaceFrom(string, params, i) ==
    IF i > Len(params) THEN string
    ELSE ReplaceFrom(StrReplace(string, params[i].k, Str(params[i].v)), params, i + 1)

\* _replace_param_occurrences(string, params)
_replace_param_occurrences(string, params) == ReplaceFrom(string, params, 1)

(***************************************************************************)
(* Launch geometry and kernel specialisation                               *)
(***************************************************************************)
DefaultBlockSizeX == 256

HasKey(params, k) == \E i \in 1..Len(params) : params[i].k = k

\* params.get(k, default)
Get(params, k, default) ==
    IF HasKey(params, k)
    THEN params[CHOOSE i \in 1..Len(params) : params[i].k = k].v
    ELSE default

\* _get_thread_block_dimensions(params)
_get_thread_block_dimensions(params) ==
    <<Get(params, "block_size_x", PyInt(DefaultBlockSizeX)),
      Get(params, "block_size_y", PyInt(1)),
      Get(params, "block_size_z", PyInt(1))>>

\* mutant of TooManyThreads: the limit itself is refused
TooManyThreadsGe(threads, maxThreads) ==
    threads[1].p * threads[2].p * threads[3].p
        >= maxThreads * threads[1].q * threads[2].q * threads[3].q

\* numpy.prod(threads) > max_threads
TooManyThreads(threads, maxThreads) ==
    threads[1].p * threads[2].p * threads[3].p
        > maxThreads * threads[1].q * threads[2].q * threads[3].q

\* int(v) of a non-negative number: truncation
IntOf(v) == v.p \div v.q

RECURSIVE ProdFrom(_, _)
ProdFrom(ints, i) == IF i > Len(ints) THEN 1 ELSE ints[i] * ProdFrom(ints, i + 1)

\* the list [int(eval(_replace_param_occurrences(s, params))) for s in divs] raises
DivRaises(divs, params) ==
    \E i \in 1..Len(divs) : Eval(_replace_param_occurrences(divs[i], params)) = Raise

\* numpy.prod([int(eval(_replace_param_occurrences(s, params))) for s in divs])
DivProd(divs, params) ==
    ProdFrom([i \in 1..Len(divs) |->
                 IntOf(Eval(_replace_param_occurrences(divs[i], params)))], 1)

\* the divisor list in effect on the x axis (lines 465-466)
EffectiveDivX(params, div_x) ==
    IF div_x.none /\ HasKey(params, "block_size_x")
    THEN List(<< <<<<"block_size_x">>>> >>)
    ELSE div_x

\* mutant of EffectiveDivY: the y axis defaults like the x axis
EffectiveDivYDefault(params, div_y) ==
    IF div_y.none /\ HasKey(params, "block_size_y")
    THEN List(<< <<<<"block_size_y">>>> >>)
    ELSE div_y

\* the divisor list in effect on the y axis: no default
EffectiveDivY(params, div_y) == div_y

\* mutant of GridAxis: the quotient rounded down
GridAxisFloor(size, div) == size \div div

\* int(numpy.ceil(float(size) / float(div))) for div > 0
GridAxis(size, div) == CeilDiv(size, div)

\* _get_grid_dimensions(problem_size, params, grid_div_y, grid_div_x): the grid,
\* or raise = TRUE when an eval raises or a divisor product is 0
\* (float division by zero)
_get_grid_dimensions(problem_size, params, div_y, div_x) ==
    LET dx == EffectiveDivX(params, div_x)
        dy == EffectiveDivY(params, div_y)
        rx == ~dx.none /\ DivRaises(dx.l, params)
        ry == ~dy.none /\ DivRaises(dy.l, params)
        px == IF dx.none \/ rx THEN 1 ELSE DivProd(dx.l, params)
        py == IF dy.none \/ ry THEN 1 ELSE DivProd(dy.l, params)
    IN  IF rx \/ ry \/ px = 0 \/ py = 0
        THEN [raise |-> TRUE, x |-> 0, y |-> 0]
        ELSE [raise |-> FALSE,
              x |-> GridAxis(problem_size[1], px),
              y |-> GridAxis(problem_size[2], py)]

\* one line "#define " + k + " " + text + "\n"
DefineLine(k, text) == <<"#define ", k, " ">> \o text \o <<"\n">>

RECURSIVE PrependDefines(_, _, _)
PrependDefines(kernel_string, params, i) ==
    IF i > Len(params) THEN kernel_string
    ELSE PrependDefines(DefineLine(params[i].k, Str(params[i].v)) \o kernel_string,
                        params, i + 1)

\* mutant of _prepare_kernel_string: the defines are laid out top to bottom in
\* the order in which the code creates them
PrepareInCreationOrder(original_kernel, params, grid) ==
    LET lines == [i \in 1..Len(params) |-> DefineLine(params[i].k, Str(params[i].v))]
    IN  DefineLine("grid_size_x", Digits(grid.x))
            \o DefineLine("grid_size_y", Digits(grid.y))
            \o JoinFrom(lines, <<>>, 1) \o original_kernel

\* _prepare_kernel_string(original_kernel, params, grid)
_prepare_kernel_string(original_kernel, params, grid) ==
    LET s1 == DefineLine("grid_size_x", Digits(grid.x)) \o original_kernel
        s2 == DefineLine("grid_size_y", Digits(grid.y)) \o s1
    IN  PrependDefines(s2, params, 1)

(***************************************************************************)
(* Inputs                                                                  *)
(***************************************************************************)
MaxProblem == 5
MaxBlock == 4

P(k, v) == [k |-> k, v |-> v]
Name(k) == <<k>>
Lit(n) == Digits(n)

\* configurations handed to the launch-geometry functions
GridParams ==
    {<<P("block_size_x", PyInt(b))>> : b \in 1..MaxBlock}
        \cup {<<P("block_size_x", PyInt(b)), P("block_size_y", PyInt(c))>> :
                 b \in 1..MaxBlock, c \in 1..2}
        \cup {<<P("block_size_y", PyInt(c))>> : c \in 1..2}
        \cup {<<P("block_size_x", PyFloat(3, 1)), P("block_size_y", PyBool(TRUE))>>}

GridDivX ==
    {NoList, List(<<>>),
     List(<< <<Name("block_size_x")>> >>),
     List(<< <<Name("block_size_x"), <<"/">>, Lit(2)>> >>),
     List(<< <<Name("block_size_x"), <<"*">>, Lit(2)>> >>),
     List(<< <<Name("block_size_x")>>, <<Name("block_size_y")>> >>),
     List(<< <<Name("block_size_x"), <<"/">>, Lit(2)>>, <<Name("block_size_y")>> >>),
     List(<< <<Name("tile_size_x")>> >>)}

GridDivY ==
    {NoList, List(<<>>),
     List(<< <<Name("block_size_y")>> >>),
     List(<< <<Name("block_size_y"), <<"/">>, Lit(2)>> >>)}

GridInputs ==
    [problem_size : (1..MaxProblem) \X (1..MaxProblem), params : GridParams,
     grid_div_y : GridDivY, grid_div_x : GridDivX]

\* the three calls of test_get_grid_dimensions
TestParams == <<P("block_x", PyInt(41)), P("block_y", PyInt(37))>>

GridTestInputs ==
    [problem_size : {<<1024, 1024>>}, params : {TestParams},
     grid_div_y : {NoList, List(<< <<Name("block_y")>> >>)},
     grid_div_x : {NoList, List(<< <<Name("block_x")>> >>)}]

(***************************************************************************)
(* SpecGrid: _get_grid_dimensions applied to one drawn input               *)
(***************************************************************************)
SweepIdle ==
    /\ tune_params = <<>> /\ restrictions = NoList /\ answer = FALSE
    /\ grid_div_x = NoList /\ grid_div_y = NoList /\ cmem_args = FALSE
    /\ max_threads = 0 /\ lang = "" /\ pc = "idle"
    /\ parameter_space = <<>> /\ fi = 0 /\ idx = 0 /\ func = None /\ time = 0
    /\ results = {} /\ error = None /\ gpu_args = None /\ log = <<>>

InitGrid ==
    /\ SweepIdle
    /\ DeviceIdle
    /\ fn_pc = "call"
    /\ fn_args \in GridInputs \cup GridTestInputs
    /\ fn_ret = [raise |-> FALSE, x |-> 0, y |-> 0]

CallGrid ==
    /\ fn_pc = "call"
    /\ fn_ret' = _get_grid_dimensions(fn_args.problem_size, fn_args.params,
                                       fn_args.grid_div_y, fn_args.grid_div_x)
    /\ fn_pc' = "done"
    /\ UNCHANGED <<fn_args, sweepVars, devVars>>

NextGrid == CallGrid

SpecGrid == InitGrid /\ [][NextGrid]_vars

(***************************************************************************)
(* The arithmetic value of a divisor expression over a configuration, as a *)
(* rational [p, q] (true division, nothing truncated); q = 0 when it has   *)
(* none (unknown name, division by zero).                                  *)
(***************************************************************************)
RealAtom(tok, params) ==
    IF Len(tok) = 1 /\ HasKey(params, tok[1])
    THEN LET v == Get(params, tok[1], PyInt(0)) IN [p |-> v.p, q |-> v.q]
    ELSE IF IsNumberText(tok) THEN [p |-> DigitsVal(tok), q |-> 1]
    ELSE [p |-> 0, q |-> 0]

RealValue(expr, params) ==
    IF Len(expr) = 1 THEN RealAtom(expr[1], params)
    ELSE LET a == RealAtom(expr[1], params)
             b == RealAtom(expr[3], params)
         IN  IF expr[2] = <<"/">>
             THEN [p |-> a.p * b.q, q |-> a.q * b.p]
             ELSE [p |-> a.p * b.p, q |-> a.q * b.q]

RECURSIVE RealProd(_, _, _)
RealProd(divs, params, i) ==
    IF i > Len(divs) THEN [p |-> 1, q |-> 1]
    ELSE LET a == RealValue(divs[i], params)
             b == RealProd(divs, params, i + 1)
         IN  [p |-> a.p * b.p, q |-> a.q * b.q]

RECURSIVE TruncProd(_, _, _)
TruncProd(divs, params, i) ==
    IF i > Len(divs) THEN 1
    ELSE LET a == RealValue(divs[i], params)
         IN  (a.p \div a.q) * TruncProd(divs, params, i + 1)

Defined(divs, params) == \A i \in 1..Len(divs) : RealValue(divs[i], params).q > 0

\* the divisor lists in effect for the call in fn_args
InEffectX ==
    IF fn_args.grid_div_x.none /\ HasKey(fn_args.params, "block_size_x")
    THEN List(<< <<Name("block_size_x")>> >>)
    ELSE fn_args.grid_div_x

InEffectY == fn_args.grid_div_y

\* C6 as stated: on an axis with a divisor list in effect the grid is
\* ceil(problem_size / P), P the product of the un-truncated values of the
\* divisor expressions.
C6_Original ==
    (fn_pc = "done" /\ ~fn_ret.raise) =>
        /\ ~InEffectX.none =>
              LET r == RealProd(InEffectX.l, fn_args.params, 1)
              IN  fn_ret.x = CeilDiv(fn_args.problem_size[1] * r.q, r.p)
        /\ ~InEffectY.none =>
              LET r == RealProd(InEffectY.l, fn_args.params, 1)
              IN  fn_ret.y = CeilDiv(fn_args.problem_size[2] * r.q, r.p)

\* C6 amended: with T the product of the divisor expressions' values, each
\* truncated to an integer, the call returns ceil(problem_size / T) on every axis
\* with a divisor list in effect when every T is at least 1, and raises when an
\* expression has no value or some T is 0.
C6_TruncatedDivisors ==
    fn_pc = "done" =>
        LET okx == InEffectX.none \/ Defined(InEffectX.l, fn_args.params)
            oky == InEffectY.none \/ Defined(InEffectY.l, fn_args.params)
            tx == IF InEffectX.none \/ ~okx THEN 1
                  ELSE TruncProd(InEffectX.l, fn_args.params, 1)
            ty == IF InEffectY.none \/ ~oky THEN 1
                  ELSE TruncProd(InEffectY.l, fn_args.params, 1)
        IN  /\ fn_ret.raise <=> (~okx \/ ~oky \/ tx = 0 \/ ty = 0)
            /\ ~fn_ret.raise =>
                  /\ ~InEffectX.none => fn_ret.x = CeilDiv(fn_args.problem_size[1], tx)
                  /\ ~InEffectY.none => fn_ret.y = CeilDiv(fn_args.problem_size[2], ty)

\* a call whose x divisor "block_size_x/2" has the value 3/2: the grid is
\* ceil(5/1) = 5, and the test's call returns (25, 28)
C6_Witness ==
    \/ /\ fn_pc = "done"
       /\ fn_args.params = <<P("block_size_x", PyInt(3))>>
       /\ fn_args.grid_div_x = List(<< <<Name("block_size_x"), <<"/">>, Lit(2)>> >>)
       /\ fn_args.problem_size = <<5, 5>>
       /\ fn_args.grid_div_y = NoList
       /\ fn_ret = [raise |-> FALSE, x |-> 5, y |-> 5]
    \/ /\ fn_pc = "done"
       /\ fn_args.params = TestParams
       /\ ~fn_args.grid_div_x.none /\ ~fn_args.grid_div_y.none
       /\ fn_ret = [raise |-> FALSE, x |-> 25, y |-> 28]

\* C7: defaults of the divisor lists.  With grid_div_x None and block_size_x a
\* key, grid x is ceil(problem_size[0] / int(block_size_x)), the value the list
\* ["block_size_x"] gives; with grid_div_x None and no block_size_x, or with
\* grid_div_x empty, grid x is problem_size[0]; with grid_div_y None grid y is
\* problem_size[1], whether or not block_size_y is a key.
C7_DefaultDivisors ==
    (fn_pc = "done" /\ ~fn_ret.raise) =>
        LET a == fn_args
            hasx == HasKey(a.params, "block_size_x")
        IN  /\ (a.grid_div_x.none /\ hasx) =>
                  /\ fn_ret.x = CeilDiv(a.problem_size[1],
                                        IntOf(Get(a.params, "block_size_x", PyInt(1))))
                  /\ fn_ret.x = _get_grid_dimensions(a.problem_size, a.params,
                          a.grid_div_y, List(<< <<Name("block_size_x")>> >>)).x
            /\ ((a.grid_div_x.none /\ ~hasx) \/ a.grid_div_x = List(<<>>)) =>
                  fn_ret.x = a.problem_size[1]
            /\ a.grid_div_y.none => fn_ret.y = a.problem_size[2]

\* both defaults at work: block_size_x = 2 divides x, block_size_y = 2 does not
\* divide y
C7_Witness ==
    /\ fn_pc = "done"
    /\ fn_args.grid_div_x.none /\ fn_args.grid_div_y.none
    /\ fn_args.params = <<P("block_size_x", PyInt(2)), P("block_size_y", PyInt(2))>>
    /\ fn_args.problem_size = <<5, 5>>
    /\ fn_ret = [raise |-> FALSE, x |-> 3, y |-> 5]

(***************************************************************************)
(* tune_kernel: the parameter space and the restriction filter             *)
(***************************************************************************)
\* itertools.product(*values) over the keys from k on: the last key varies
\* fastest
RECURSIVE ProductFrom(_, _)
ProductFrom(tp, k) ==
    IF k > Len(tp) THEN << <<>> >>
    ELSE LET rest == ProductFrom(tp, k + 1)
             m == Len(rest)
             n == Len(tp[k].vs)
         IN  [j \in 1..(n * m) |->
                 <<tp[k].vs[((j - 1) \div m) + 1]>> \o rest[((j - 1) % m) + 1]]

\* mutant of Product: the first key varies fastest
ProductFirstFastest(tp) ==
    LET RECURSIVE From(_)
        From(k) ==
            IF k > Len(tp) THEN << <<>> >>
            ELSE LET rest == From(k + 1)
                     m == Len(rest)
                     n == Len(tp[k].vs)
                 IN  [j \in 1..(n * m) |->
                         <<tp[k].vs[((j - 1) % n) + 1]>> \o rest[((j - 1) \div n) + 1]]
    IN  From(1)

\* list(itertools.product(*tune_params.values()))
Product(tp) == ProductFrom(tp, 1)

\* zip(tune_params.keys(), element) as a dict in key order
Zip(tp, element) == [i \in 1..Len(element) |-> P(tp[i].k, element[i])]

\* mutant of Join: the separator is dropped
JoinNoSep(texts, sep) == JoinFrom(texts, <<>>, 1)

\* sep.join(texts)
Join(texts, sep) == JoinFrom(texts, sep, 1)

\* "_".join([str(i) for i in params.values()])
InstanceString(params) == Join([i \in 1..Len(params) |-> Str(params[i].v)], <<"_">>)

\* kernel_name + "_" + instance_string
KernelName(kernel_name, params) == kernel_name \o <<"_">> \o InstanceString(params)

RECURSIVE CheckFrom(_, _, _)
CheckFrom(rs, params, i) ==
    IF i > Len(rs) THEN "ok"
    ELSE LET v == Eval(_replace_param_occurrences(rs[i], params))
         IN  IF v = Raise THEN "error"
             ELSE IF v.p = 0 THEN "fails"
             ELSE CheckFrom(rs, params, i + 1)

\* _check_restrictions(restrictions, params): "ok" when it returns, "fails" when
\* it raises Exception("config fails restriction"), "error" when eval raises
_check_restrictions(rs, params) ==
    IF rs.none THEN "ok" ELSE CheckFrom(rs.l, params, 1)

\* mutant of ExceptException: only the exception _check_restrictions raises
\* itself is caught
ExceptOwnException(outcome) == outcome = "fails"

\* `except Exception` at line 298: every exception of the try block is caught
ExceptException(outcome) == outcome \in {"fails", "error"}

\* list.remove(element): the first item that is == element is removed
ListRemove(list, element) ==
    LET j == CHOOSE i \in 1..Len(list) :
                 /\ TupleEq(list[i], element)
                 /\ \A h \in 1..(i - 1) : ~TupleEq(list[h], element)
    IN  SubSeq(list, 1, j - 1) \o SubSeq(list, j + 1, Len(list))

(***************************************************************************)
(* tune_kernel: the backend's failures and the two except clauses          *)
(***************************************************************************)
SharedPhrase == <<"uses too much shared data">>
ResourcesPhrase == <<"too many resources requested for launch">>
OutOfResourcesPhrase == <<"OUT_OF_RESOURCES">>

\* messages a backend call may raise
BackendMessages ==
    {<<"ptxas error: Entry function ">> \o SharedPhrase \o <<" (0x8000 bytes, 0x4000 max)">>,
     <<"cuLaunchKernel failed: ">> \o ResourcesPhrase,
     <<"clEnqueueNDRangeKernel failed: ">> \o OutOfResourcesPhrase,
     <<"invalid argument">>}

\* mutant of CompileSkippable: every compile failure is skipped
CompileSkippableAny(msg) == TRUE

\* line 331
CompileSkippable(msg) == Contains(msg, SharedPhrase)

\* mutant of LaunchSkippable: every failure of the try block is skipped
LaunchSkippableAny(msg) == TRUE

\* line 353
LaunchSkippable(msg) ==
    Contains(msg, ResourcesPhrase) \/ Contains(msg, OutOfResourcesPhrase)

\* line 528: the message of the correctness failure
CorrectnessMessage(instance_string) ==
    <<"Error ">> \o instance_string \o <<" failed correctness check">>

GridErrorMessage == <<"exception in _get_grid_dimensions">>
RestrictionErrorMessage == <<"exception in _check_restrictions">>

\* mutant of DictSet: the table is replaced by the new entry
DictReset(d, k, t) == {[key |-> k, time |-> t]}

\* d[k] = t
DictSet(d, k, t) == {e \in d : e.key # k} \cup {[key |-> k, time |-> t]}

(***************************************************************************)
(* The device interfaces: what an attribute lookup on dev finds            *)
(***************************************************************************)
\* the attributes and methods of an OpenCLFunctions object (opencl.py)
OpenCLFunctions ==
    {"ITERATIONS", "ctx", "queue", "mf", "max_threads", "create_gpu_args",
     "compile", "benchmark", "run_kernel", "memset", "memcpy_dtoh"}

\* the operations the accelerator backend exposes to the core
CudaFunctions ==
    {"max_threads", "ready_argument_list", "compile", "benchmark", "run_kernel",
     "memset", "memcpy_dtoh", "copy_constant_memory_args"}

Languages == {"CUDA", "OpenCL"}

\* lines 505-513 (the attributes of the object returned)
_get_device_interface(l) == IF l = "OpenCL" THEN OpenCLFunctions ELSE CudaFunctions

\* hasattr(dev, name)
HasAttr(l, name) == name \in _get_device_interface(l)

\* the message of the AttributeError a lookup of a missing attribute raises
AttributeErrorMessage(l, name) ==
    LET class == IF l = "OpenCL" THEN "OpenCLFunctions" ELSE "CudaFunctions"
    IN  <<"'", class, "' object has no attribute '", name, "'">>

\* lines 284-287: what tune_kernel looks up on dev before the filter, in order
SetupAttributes == <<"max_threads", "ready_argument_list">>

\* the first attribute of the sequence names that dev lacks, or "" if none
FirstMissing(l, names) ==
    IF \A n \in 1..Len(names) : HasAttr(l, names[n]) THEN ""
    ELSE names[CHOOSE n \in 1..Len(names) :
                   /\ ~HasAttr(l, names[n])
                   /\ \A m \in 1..(n - 1) : HasAttr(l, names[m])]

(***************************************************************************)
(* Spec: one sweep of tune_kernel against a backend whose compile,         *)
(* copy_constant_memory_args, run_kernel and benchmark calls may each      *)
(* succeed or raise.                                                       *)
(***************************************************************************)
MaxTime == 2

kernel_name == <<"vector_add">>

Dom(k, vs) == [k |-> k, vs |-> vs]

\* parameter domains: unique names, non-empty candidate sequences
Domains ==
    {<<Dom("block_size_x", <<PyInt(1), PyInt(4), PyInt(2)>>)>>,
     <<Dom("block_size_x", <<PyInt(1), PyInt(2)>>),
       Dom("tile_size_x", <<PyInt(0), PyInt(1)>>)>>,
     <<Dom("block_size_x", <<PyInt(1), PyFloat(1, 1)>>)>>,
     <<Dom("block_size_x", <<PyInt(2), PyInt(2)>>)>>,
     <<Dom("block_size_x", <<PyInt(2)>>),
       Dom("block_size_y", <<PyBool(TRUE), PyInt(2)>>)>>,
     <<Dom("tile_size_x", <<PyInt(1), PyInt(2)>>)>>}

Restrictions ==
    {NoList,
     List(<< <<Name("block_size_x"), <<">">>, Lit(1)>> >>),
     List(<< <<Name("block_size_x"), <<"/">>, Lit(2), <<"==">>, Lit(0)>> >>),
     List(<< <<Lit(2), <<"/">>, Name("tile_size_x"), <<">">>, Lit(1)>> >>),
     List(<< <<Name("block_size_x"), <<"<=">>, Lit(2)>>,
             <<Name("block_size_x"), <<"*">>, Lit(2), <<">">>, Lit(2)>> >>),
     List(<< <<Name("block_size_x"), <<">">>>> >>)}

SweepGridDivX == {NoList, List(<< <<Name("block_size_x"), <<"/">>, Lit(2)>> >>)}

SweepGridDivY == {NoList, List(<< <<Name("block_size_y")>> >>)}

problem_size == <<MaxProblem, MaxProblem>>

DeviceMaxThreads == {2, DefaultBlockSizeX}

\* the configuration of element i of the pruned parameter space (line 305)
ParamsAt(i) == Zip(tune_params, parameter_space[i])

Event(i, ev, out, name, msg, t) ==
    [i |-> i, ev |-> ev, out |-> out, name |-> name, msg |-> msg, t |-> t]

Init ==
    /\ tune_params \in Domains
    /\ restrictions \in Restrictions
    /\ answer \in BOOLEAN
    /\ grid_div_x \in SweepGridDivX
    /\ grid_div_y \in SweepGridDivY
    /\ cmem_args \in BOOLEAN
    /\ max_threads \in DeviceMaxThreads
    /\ lang \in Languages
    /\ pc = "start"
    /\ parameter_space = <<>>
    /\ fi = 1 /\ idx = 1 /\ func = None /\ time = 0
    /\ results = {} /\ error = None /\ gpu_args = None /\ log = <<>>
    /\ fn_pc = "idle" /\ fn_args = <<>> /\ fn_ret = <<>>
    /\ DeviceIdle

\* lines 293-301: one iteration of the loop over the copy of the product
FilterStep ==
    /\ pc = "filter"
    /\ LET full == Product(tune_params)
           element == full[fi]
           outcome == _check_restrictions(restrictions, Zip(tune_params, element))
       IN  IF outcome # "ok" /\ ~ExceptException(outcome)
           THEN /\ pc' = "raised"
                /\ error' = RestrictionErrorMessage
                /\ UNCHANGED <<parameter_space, fi>>
           ELSE /\ parameter_space' = IF outcome = "ok" THEN parameter_space
                                      ELSE ListRemove(parameter_space, element)
                /\ fi' = fi + 1
                /\ pc' = IF fi = Len(full) THEN "loop" ELSE "filter"
                /\ UNCHANGED error
    /\ UNCHANGED <<inputVars, gpu_args, idx, func, time, results, log, fnVars, devVars>>

\* mutant of Continue: the element that was skipped is tried again
ContinueSameElement ==
    /\ idx' = idx
    /\ pc' = "loop"
    /\ UNCHANGED error

\* `continue`: on to the next element
Continue ==
    /\ idx' = idx + 1
    /\ pc' = "loop"
    /\ UNCHANGED error

\* an exception leaves tune_kernel
Propagate(msg) ==
    /\ pc' = "raised"
    /\ error' = msg
    /\ UNCHANGED idx

\* lines 280-290: the device interface is there, the arguments are moved to
\* the device and the cartesian product is built
SetupOk ==
    /\ pc = "start"
    /\ FirstMissing(lang, SetupAttributes) = ""
    /\ gpu_args' = <<"staged">>
    /\ parameter_space' = Product(tune_params)
    /\ pc' = "filter"
    /\ UNCHANGED <<inputVars, fi, idx, func, time, results, error, log, fnVars, devVars>>

\* lines 284-287: dev lacks an attribute tune_kernel uses; AttributeError
SetupRaise ==
    /\ pc = "start"
    /\ FirstMissing(lang, SetupAttributes) # ""
    /\ LET msg == AttributeErrorMessage(lang, FirstMissing(lang, SetupAttributes))
       IN  /\ log' = Append(log, Event(0, "setup", "raise", <<>>, msg, 0))
           /\ Propagate(msg)
    /\ UNCHANGED <<inputVars, gpu_args, parameter_space, fi, func, time, results,
                   fnVars, devVars>>

\* lines 304-322: the next element, its thread block, grid and kernel name
NextElement ==
    /\ pc = "loop"
    /\ idx <= Len(parameter_space)
    /\ LET params == ParamsAt(idx)
           threads == _get_thread_block_dimensions(params)
           grid == _get_grid_dimensions(problem_size, params, grid_div_y, grid_div_x)
       IN  IF TooManyThreads(threads, max_threads)
           THEN /\ Continue
                /\ log' = Append(log, Event(idx, "threads", "skip", <<>>, <<>>, 0))
           ELSE IF grid.raise
           THEN /\ Propagate(GridErrorMessage)
                /\ log' = Append(log, Event(idx, "grid", "raise", <<>>,
                                             GridErrorMessage, 0))
           ELSE /\ pc' = "compile"
                /\ UNCHANGED <<idx, error, log>>
    /\ UNCHANGED <<inputVars, gpu_args, parameter_space, fi, func, time, results, fnVars, devVars>>

\* lines 366-372: the loop is over, the table is returned
Finish ==
    /\ pc = "loop"
    /\ idx > Len(parameter_space)
    /\ pc' = "done"
    /\ UNCHANGED <<inputVars, gpu_args, parameter_space, fi, idx, func, time, results,
                   error, log, fnVars, devVars>>

\* line 326: dev.compile returns
CompileOk ==
    /\ pc = "compile"
    /\ LET name == KernelName(kernel_name, ParamsAt(idx))
       IN  /\ func' = name
           /\ log' = Append(log, Event(idx, "compile", "ok", name, <<>>, 0))
    /\ pc' = IF cmem_args THEN "cmem" ELSE IF answer THEN "check" ELSE "benchmark"
    /\ UNCHANGED <<inputVars, gpu_args, parameter_space, fi, idx, time, results, error, fnVars, devVars>>

\* lines 326-336: dev.compile raises
CompileRaise ==
    /\ pc = "compile"
    /\ \E msg \in BackendMessages :
          /\ log' = Append(log, Event(idx, "compile", "raise",
                                       KernelName(kernel_name, ParamsAt(idx)), msg, 0))
          /\ IF CompileSkippable(msg) THEN Continue ELSE Propagate(msg)
    /\ UNCHANGED <<inputVars, gpu_args, parameter_space, fi, func, time, results, fnVars, devVars>>

\* lines 339-340: dev.copy_constant_memory_args returns
CopyConstantOk ==
    /\ pc = "cmem"
    /\ HasAttr(lang, "copy_constant_memory_args")
    /\ log' = Append(log, Event(idx, "cmem", "ok", func, <<>>, 0))
    /\ pc' = IF answer THEN "check" ELSE "benchmark"
    /\ UNCHANGED <<inputVars, gpu_args, parameter_space, fi, idx, func, time, results,
                   error, fnVars, devVars>>

\* lines 339-340: dev.copy_constant_memory_args raises, outside every try block
CopyConstantRaise ==
    /\ pc = "cmem"
    /\ \E msg \in (IF HasAttr(lang, "copy_constant_memory_args") THEN BackendMessages
                   ELSE {AttributeErrorMessage(lang, "copy_constant_memory_args")}) :
          /\ log' = Append(log, Event(idx, "cmem", "raise", func, msg, 0))
          /\ Propagate(msg)
    /\ UNCHANGED <<inputVars, gpu_args, parameter_space, fi, func, time, results, fnVars, devVars>>

\* lines 353-359: the except clause of the verify-and-benchmark block
HandleLaunchError(msg) ==
    IF LaunchSkippable(msg) THEN Continue ELSE Propagate(msg)

\* line 345: _check_kernel_correctness returns (the output matches)
CheckPass ==
    /\ pc = "check"
    /\ log' = Append(log, Event(idx, "check", "ok", func, <<>>, 0))
    /\ pc' = "benchmark"
    /\ UNCHANGED <<inputVars, gpu_args, parameter_space, fi, idx, func, time, results,
                   error, fnVars, devVars>>

\* lines 345, 527-528: the output differs from the answer
CheckMismatch ==
    /\ pc = "check"
    /\ LET msg == CorrectnessMessage(InstanceString(ParamsAt(idx)))
       IN  /\ log' = Append(log, Event(idx, "check", "mismatch", func, msg, 0))
           /\ HandleLaunchError(msg)
    /\ UNCHANGED <<inputVars, gpu_args, parameter_space, fi, func, time, results, fnVars, devVars>>

\* lines 345, 520: the launch inside _check_kernel_correctness raises
CheckRaise ==
    /\ pc = "check"
    /\ \E msg \in BackendMessages :
          /\ log' = Append(log, Event(idx, "check", "raise", func, msg, 0))
          /\ HandleLaunchError(msg)
    /\ UNCHANGED <<inputVars, gpu_args, parameter_space, fi, func, time, results, fnVars, devVars>>

\* line 347: dev.benchmark returns a time
BenchmarkOk ==
    /\ pc = "benchmark"
    /\ \E t \in 1..MaxTime :
          /\ time' = t
          /\ log' = Append(log, Event(idx, "benchmark", "ok", func, <<>>, t))
    /\ pc' = "record"
    /\ UNCHANGED <<inputVars, gpu_args, parameter_space, fi, idx, func, results, error, fnVars, devVars>>

\* line 347: dev.benchmark raises
BenchmarkRaise ==
    /\ pc = "benchmark"
    /\ \E msg \in BackendMessages :
          /\ log' = Append(log, Event(idx, "benchmark", "raise", func, msg, 0))
          /\ HandleLaunchError(msg)
    /\ UNCHANGED <<inputVars, gpu_args, parameter_space, fi, func, time, results, fnVars, devVars>>

\* lines 362-363: results[instance_string] = time
Record ==
    /\ pc = "record"
    /\ LET key == InstanceString(ParamsAt(idx))
       IN  /\ results' = DictSet(results, key, time)
           /\ log' = Append(log, Event(idx, "record", "ok", <<>>, key, time))
    /\ idx' = idx + 1
    /\ pc' = "loop"
    /\ UNCHANGED <<inputVars, gpu_args, parameter_space, fi, func, time, error, fnVars, devVars>>

Next ==
    \/ SetupOk \/ SetupRaise
    \/ FilterStep \/ NextElement \/ Finish
    \/ CompileOk \/ CompileRaise
    \/ CopyConstantOk \/ CopyConstantRaise
    \/ CheckPass \/ CheckMismatch \/ CheckRaise
    \/ BenchmarkOk \/ BenchmarkRaise
    \/ Record

Spec == Init /\ [][Next]_vars

(***************************************************************************)
(* Properties of the sweep                                                 *)
(***************************************************************************)
Swept ==
    /\ gpu_args # None
    /\ pc \in {"loop", "compile", "cmem", "check", "benchmark", "record", "done",
              "raised"}

Keys(d) == {e.key : e \in d}

EventsOf(i) == {j \in 1..Len(log) : log[j].i = i}

\* the product of the thread-block dimensions of element i, with the defaults
\* 256, 1, 1, against the device's max_threads
BlockDim(i, k, default) ==
    LET ps == ParamsAt(i)
    IN  IF \E n \in 1..Len(ps) : ps[n].k = k
        THEN (CHOOSE n \in 1..Len(ps) : ps[n].k = k)
        ELSE 0

BlockValue(i, k, default) ==
    IF BlockDim(i, k, default) = 0 THEN [p |-> default, q |-> 1]
    ELSE LET v == ParamsAt(i)[BlockDim(i, k, default)].v IN [p |-> v.p, q |-> v.q]

ExceedsMaxThreads(i) ==
    LET x == BlockValue(i, "block_size_x", 256)
        y == BlockValue(i, "block_size_y", 1)
        z == BlockValue(i, "block_size_z", 1)
    IN  x.p * y.p * z.p > max_threads * x.q * y.q * z.q

\* C1: a configuration of the pruned space whose thread-block product exceeds
\* max_threads is never compiled, verified, benchmarked or recorded, and the
\* sweep goes on after it without raising; a configuration whose product is at
\* most max_threads is never skipped for its thread count.
C1_ThreadLimit ==
    Swept =>
        \A i \in 1..Len(parameter_space) :
            IF ExceedsMaxThreads(i)
            THEN /\ \A j \in EventsOf(i) : log[j].ev = "threads" /\ log[j].out = "skip"
                 /\ InstanceString(ParamsAt(i)) \notin Keys(results)
                 /\ i < idx => EventsOf(i) # {}
                 /\ i = idx => pc = "loop"
            ELSE \A j \in EventsOf(i) : log[j].ev # "threads"

\* the sweep is over; an element over the limit was skipped, a later element was
\* recorded, and an element whose product equals max_threads was recorded
C1_Witness ==
    /\ pc = "done"
    /\ \E i, h \in 1..Len(parameter_space) :
          /\ i < h
          /\ ExceedsMaxThreads(i)
          /\ \E j \in EventsOf(i) : log[j].ev = "threads"
          /\ \E j \in EventsOf(h) : log[j].ev = "record"
          /\ BlockValue(h, "block_size_x", 256).p = max_threads

\* C2: when the output of a compiled configuration differs from the answer,
\* tune_kernel raises an error whose message contains the configuration's
\* identity string; the configuration is neither benchmarked nor recorded, and
\* nothing happens after the failed check.
C2_MismatchFatal ==
    \A j \in 1..Len(log) :
        (log[j].ev = "check" /\ log[j].out = "mismatch") =>
            /\ answer
            /\ pc = "raised"
            /\ idx = log[j].i
            /\ Contains(error, InstanceString(ParamsAt(log[j].i)))
            /\ j = Len(log)
            /\ \A h \in EventsOf(log[j].i) : log[h].ev \notin {"benchmark", "record"}

\* the second of three configurations fails the check after the first was
\* recorded
C2_Witness ==
    /\ pc = "raised"
    /\ Len(parameter_space) = 3
    /\ idx = 2
    /\ log[Len(log)].out = "mismatch"
    /\ results # {}
    /\ error = <<"Error ", "4", " failed correctness check">>

\* C3: a failure of dev.compile is skipped iff its message contains "uses too
\* much shared data"; a failure while verifying or benchmarking is skipped iff
\* its message contains "too many resources requested for launch" or
\* "OUT_OF_RESOURCES".  A skipped failure records nothing and the sweep goes on
\* with the next element; any other failure leaves tune_kernel with that
\* message and nothing is processed after it.
C3_Classification ==
    \A j \in 1..Len(log) :
        (log[j].out \in {"raise", "mismatch"}
            /\ log[j].ev \in {"compile", "check", "benchmark"}) =>
            LET msg == log[j].msg
                known ==
                    IF log[j].ev = "compile"
                    THEN Contains(msg, <<"uses too much shared data">>)
                    ELSE \/ Contains(msg, <<"too many resources requested for launch">>)
                         \/ Contains(msg, <<"OUT_OF_RESOURCES">>)
            IN  IF known
                THEN /\ idx > log[j].i
                     /\ \A h \in EventsOf(log[j].i) : h <= j /\ log[h].ev # "record"
                     /\ j = Len(log) => (pc # "raised" /\ error = None)
                ELSE /\ pc = "raised"
                     /\ error = msg
                     /\ idx = log[j].i
                     /\ j = Len(log)

\* a compile failure and a launch failure were skipped, then a launch failure
\* with the compile phrase ended the sweep
C3_Witness ==
    /\ pc = "raised"
    /\ \E j \in 1..Len(log) :
          log[j].ev = "compile" /\ log[j].out = "raise" /\ log[j].i < idx
    /\ \E j \in 1..Len(log) :
          /\ log[j].ev = "benchmark" /\ log[j].out = "raise" /\ log[j].i < idx
          /\ Contains(log[j].msg, <<"OUT_OF_RESOURCES">>)
    /\ log[Len(log)].ev = "check"
    /\ Contains(error, <<"uses too much shared data">>)

\* every restriction, with the names replaced by the element's values,
\* evaluates to true
AllTrue(element) ==
    \/ restrictions.none
    \/ \A n \in 1..Len(restrictions.l) :
          LET v == Eval(_replace_param_occurrences(restrictions.l[n],
                                                   Zip(tune_params, element)))
          IN  v # Raise /\ v.p # 0

\* evaluating some restriction raises for the element
SomeRaises(element) ==
    /\ ~restrictions.none
    /\ \E n \in 1..Len(restrictions.l) :
          Eval(_replace_param_occurrences(restrictions.l[n],
                                          Zip(tune_params, element))) = Raise

\* C4: the filter retains a configuration iff every restriction evaluates to
\* true for it (a configuration whose evaluation raises is dropped, and with
\* restrictions=None everything is retained), and it has run over the whole
\* space before the first compile call.
C4_Original ==
    /\ Swept => parameter_space = SelectSeq(Product(tune_params), AllTrue)
    /\ (\E j \in 1..Len(log) : log[j].ev # "setup") => Swept

\* C5: a restriction whose evaluation raises for a configuration aborts the
\* sweep: once the filter has met such a configuration, tune_kernel has raised.
C5_Original ==
    \A n \in 1..Len(Product(tune_params)) :
        (SomeRaises(Product(tune_params)[n]) /\ (fi > n \/ Swept)) => pc = "raised"

\* C5 amended: a restriction whose evaluation raises is never fatal.  The
\* exception is caught, one entry of the parameter space is removed for every
\* configuration that raises or fails, and tune_kernel goes on; whenever
\* tune_kernel raises, the exception comes from the set-up before the filter
\* or from the main loop.
C5_RaisingRestrictionDrops ==
    LET full == Product(tune_params)
        met == IF Swept THEN Len(full) ELSE fi - 1
        bad == {n \in 1..met : ~AllTrue(full[n])}
    IN  (pc = "filter" \/ Swept) =>
            /\ Len(parameter_space) = Len(full) - Cardinality(bad)
            /\ pc = "raised" =>
                  /\ log # <<>>
                  /\ log[Len(log)].out \in {"raise", "mismatch"}
                  /\ error = log[Len(log)].msg

\* the restriction "2/tile_size_x > 1" raises for tile_size_x = 0; the sweep
\* ends normally with the two configurations of tile_size_x = 1 recorded
C5_Witness ==
    /\ pc = "done"
    /\ \E n \in 1..Len(Product(tune_params)) : SomeRaises(Product(tune_params)[n])
    /\ Len(parameter_space) = 2
    /\ Keys(results) = {<<"1", "_", "1">>, <<"2", "_", "1">>}

\* no two configurations of the domain have the same identity string
DistinctIdentities ==
    LET full == Product(tune_params)
    IN  \A a, b \in 1..Len(full) :
            a # b => InstanceString(Zip(tune_params, full[a]))
                         # InstanceString(Zip(tune_params, full[b]))

\* C10: the table is append-only: an entry, once inserted, is never changed or
\* removed, and every record step adds a key that was not present before.
C10_Original ==
    [][/\ results \subseteq results'
       /\ pc = "record" => InstanceString(ParamsAt(idx)) \notin Keys(results)]_vars

\* C10 amended: no key ever leaves the table, and an entry changes only when a
\* configuration with the same identity is recorded; for a domain in which no
\* two configurations have the same identity string (no candidate sequence
\* repeats a value), no entry ever changes and every record step adds a key
\* that was not present before.
C10_AppendOnly ==
    [][/\ Keys(results) \subseteq Keys(results')
       /\ \A e \in results \ results' :
             pc = "record" /\ e.key = InstanceString(ParamsAt(idx))
       /\ DistinctIdentities =>
             /\ results \subseteq results'
             /\ pc = "record" =>
                   /\ InstanceString(ParamsAt(idx)) \notin Keys(results)
                   /\ results' = results \cup
                          {[key |-> InstanceString(ParamsAt(idx)), time |-> time]}]_vars

\* three configurations with distinct identities were recorded one after
\* another
C10_Witness ==
    /\ pc = "done"
    /\ DistinctIdentities
    /\ Cardinality(results) = 3
    /\ Len(log) = 9

(***************************************************************************)
(* SpecPrep: _prepare_kernel_string applied to one drawn input             *)
(***************************************************************************)
MaxKeys == 3

original_kernel ==
    <<"__global__ void ", "vector_add", "(float *c, float *a, float *b, int n) {...}\n">>

PrepKeys == <<"block_size_x", "block_size_y", "tile_size_x", "tile_size_y", "vecsize">>

PrepValues == {PyInt(1), PyInt(32), PyFloat(2, 1), PyBool(TRUE)}

\* configurations of up to MaxKeys distinct keys, in every key order
PrepParams ==
    UNION {{ps \in [1..n -> [k : {PrepKeys[i] : i \in 1..MaxKeys}, v : PrepValues]] :
               \A a, b \in 1..n : a # b => ps[a].k # ps[b].k} : n \in 0..MaxKeys}

PrepInputs ==
    [params : PrepParams,
     grid : [raise : {FALSE}, x : {1, 25}, y : {1, 28}]]

InitPrep ==
    /\ SweepIdle
    /\ DeviceIdle
    /\ fn_pc = "call"
    /\ fn_args \in PrepInputs
    /\ fn_ret = <<>>

CallPrep ==
    /\ fn_pc = "call"
    /\ fn_ret' = _prepare_kernel_string(original_kernel, fn_args.params, fn_args.grid)
    /\ fn_pc' = "done"
    /\ UNCHANGED <<fn_args, sweepVars, devVars>>

NextPrep == CallPrep

SpecPrep == InitPrep /\ [][NextPrep]_vars

\* the text "#define <k> <value>" and a newline
Define(k, v) == <<"#define ", k, " ">> \o Str(v) \o <<"\n">>

RECURSIVE DefinesUp(_, _)
DefinesUp(params, i) ==
    IF i > Len(params) THEN <<>>
    ELSE Define(params[i].k, params[i].v) \o DefinesUp(params, i + 1)

RECURSIVE DefinesDown(_, _)
DefinesDown(params, i) ==
    IF i < 1 THEN <<>>
    ELSE Define(params[i].k, params[i].v) \o DefinesDown(params, i - 1)

\* C8: the returned text is, top to bottom: the define of grid_size_x, the
\* define of grid_size_y, the defines of k1..kn in key order, the original
\* source.
C8_Original ==
    fn_pc = "done" =>
        fn_ret = Define("grid_size_x", PyInt(fn_args.grid.x))
                     \o Define("grid_size_y", PyInt(fn_args.grid.y))
                     \o DefinesUp(fn_args.params, 1)
                     \o original_kernel

\* C8 amended: the returned text is, top to bottom: the defines of kn..k1 (the
\* reverse of the key order), the define of grid_size_y, the define of
\* grid_size_x, the unmodified original source.
C8_ReverseOrder ==
    fn_pc = "done" =>
        fn_ret = DefinesDown(fn_args.params, Len(fn_args.params))
                     \o Define("grid_size_y", PyInt(fn_args.grid.y))
                     \o Define("grid_size_x", PyInt(fn_args.grid.x))
                     \o original_kernel

\* a configuration of two keys: block_size_y comes out above block_size_x
C8_Witness ==
    /\ fn_pc = "done"
    /\ fn_args.params = <<P("block_size_x", PyInt(32)), P("block_size_y", PyInt(1))>>
    /\ fn_args.grid = [raise |-> FALSE, x |-> 25, y |-> 28]
    /\ fn_ret = <<"#define ", "block_size_y", " ", "1", "\n",
                  "#define ", "block_size_x", " ", "3", "2", "\n",
                  "#define ", "grid_size_y", " ", "2", "8", "\n",
                  "#define ", "grid_size_x", " ", "2", "5", "\n">> \o original_kernel

(***************************************************************************)
(* SpecName: the kernel names of two configurations of one domain          *)
(***************************************************************************)
MaxValue == 11
MaxNameKeys == 2

\* ints, a bool, and floats: 1.0, 0.3 and 0.1 + 0.2 = 0.30000000000000004
NameValues ==
    {PyInt(n) : n \in (0..1) \cup (10..MaxValue)}
        \cup {PyBool(TRUE), PyFloat(1, 1), PyFloat(3, 10), PyFloatLo(3, 10, 4)}

\* two value tuples over the same keys
NameInputs ==
    UNION {[a : [1..n -> NameValues], b : [1..n -> NameValues]] : n \in 1..MaxNameKeys}

NameKeys == <<"block_size_x", "block_size_y", "block_size_z", "tile_size_x">>

\* a domain from which both tuples are drawn: each key offers both values
NameDomain(a, b) == [i \in 1..Len(a) |-> Dom(NameKeys[i], <<a[i], b[i]>>)]

InitName ==
    /\ SweepIdle
    /\ DeviceIdle
    /\ fn_pc = "call"
    /\ fn_args \in NameInputs
    /\ fn_ret = <<>>

\* lines 305-306 and 321 for both elements
CallName ==
    /\ fn_pc = "call"
    /\ LET tp == NameDomain(fn_args.a, fn_args.b)
       IN  fn_ret' = <<KernelName(kernel_name, Zip(tp, fn_args.a)),
                       KernelName(kernel_name, Zip(tp, fn_args.b))>>
    /\ fn_pc' = "done"
    /\ UNCHANGED <<fn_args, sweepVars, devVars>>

NextName == CallName

SpecName == InitName /\ [][NextName]_vars

IntOrBool(v) == v.t \in {"int", "bool"}

IsAttributeError(msg) == Contains(msg, <<"' object has no attribute '">>)

\* C12: with the OpenCL backend selected, tune_kernel never fails on an
\* operation the device object lacks: an error that leaves the sweep is never
\* an AttributeError, and the sweep gets past the set-up into the filter and
\* the per-configuration loop.
C12_Original ==
    lang = "OpenCL" =>
        /\ pc = "raised" => ~IsAttributeError(error)
        /\ pc \notin {"start", "idle"} => Swept \/ pc = "filter"

(***************************************************************************)
(* The order of the sweep                                                  *)
(***************************************************************************)
RECURSIVE LaterCount(_, _)
\* the number of combinations of the keys after key k
LaterCount(tp, k) ==
    IF k >= Len(tp) THEN 1 ELSE Len(tp[k + 1].vs) * LaterCount(tp, k + 1)

\* element n of the generation order: keys in declared order, last key fastest
Generated(tp, n) ==
    [k \in 1..Len(tp) |->
        tp[k].vs[(((n - 1) \div LaterCount(tp, k)) % Len(tp[k].vs)) + 1]]

RECURSIVE IsSubsequence(_, _)
\* a is b with some entries left out
IsSubsequence(a, b) ==
    IF a = <<>> THEN TRUE
    ELSE IF b = <<>> THEN FALSE
    ELSE IF Head(a) = Head(b) THEN IsSubsequence(Tail(a), Tail(b))
    ELSE IsSubsequence(a, Tail(b))

\* the event closes the processing of its element and the sweep goes on
ClosesElement(e) ==
    \/ e.ev = "record"
    \/ e.ev = "threads" /\ e.out = "skip"
    \/ e.ev = "compile" /\ e.out = "raise" /\ Contains(e.msg, SharedPhrase)
    \/ /\ e.ev \in {"check", "benchmark"} /\ e.out = "raise"
       /\ (Contains(e.msg, ResourcesPhrase) \/ Contains(e.msg, OutOfResourcesPhrase))

\* the keys of the record events, in the order of insertion
RecordedKeys == [j \in 1..Len(SelectSeq(log, LAMBDA e : e.ev = "record")) |->
                    SelectSeq(log, LAMBDA e : e.ev = "record")[j].msg]

\* C13: configurations are processed one after another in the cartesian
\* product order (keys in declared order, last key varying fastest)
\* restricted to what the filter left: the keys are inserted into the table
\* in a subsequence of the generation order, and every step of element i
\* comes after element i - 1 has been closed by a skip or a record.
C13_SequentialOrder ==
    Swept =>
        LET full == Product(tune_params)
        IN  /\ Len(full) = LaterCount(tune_params, 0)
            /\ \A n \in 1..Len(full) : full[n] = Generated(tune_params, n)
            /\ IsSubsequence(parameter_space,
                             [n \in 1..Len(full) |-> Generated(tune_params, n)])
            /\ IsSubsequence(RecordedKeys,
                             [n \in 1..Len(full) |->
                                 InstanceString(Zip(tune_params,
                                                    Generated(tune_params, n)))])
            /\ \A j \in 1..Len(log) :
                  /\ log[j].i \in 1..Len(parameter_space)
                  /\ log[j].i <= idx
                  /\ log[j].i < idx => (\E h \in j..Len(log) :
                                          log[h].i = log[j].i /\ ClosesElement(log[h]))
                  /\ log[j].ev = "record" =>
                        log[j].msg = InstanceString(ParamsAt(log[j].i))
            /\ \A j \in 1..(Len(log) - 1) :
                  \/ log[j + 1].i = log[j].i /\ ~ClosesElement(log[j])
                  \/ log[j + 1].i = log[j].i + 1 /\ ClosesElement(log[j])

\* a domain of two keys: the filter dropped the two configurations with
\* tile_size_x = 0, and the two others were recorded in generation order
C13_Witness ==
    /\ pc = "done"
    /\ Len(tune_params) = 2
    /\ Len(Product(tune_params)) = 4
    /\ parameter_space = <<Product(tune_params)[2], Product(tune_params)[4]>>
    /\ RecordedKeys = << <<"1", "_", "1">>, <<"2", "_", "1">> >>

(***************************************************************************)
(* The outcome of each element                                             *)
(***************************************************************************)
\* the event is an error that leaves tune_kernel
FatalEvent(e) == e.out \in {"raise", "mismatch"} /\ ~ClosesElement(e)

\* the events that give element i its outcome
OutcomesOf(i) == {j \in EventsOf(i) : ClosesElement(log[j]) \/ FatalEvent(log[j])}

Calls(i, ev) == {j \in EventsOf(i) : log[j].ev = ev}

\* C15: no retry.  For each element of the filtered space compile and
\* benchmark are invoked at most once; an element that has been left has
\* exactly one outcome (skipped, recorded or fatal), which is its last event,
\* and no later event belongs to it; a fatal outcome ends the sweep; an
\* element not yet left has no outcome.
C15_NoRetry ==
    Swept =>
        \A i \in 1..Len(parameter_space) :
            /\ Cardinality(Calls(i, "compile")) <= 1
            /\ Cardinality(Calls(i, "benchmark")) <= 1
            /\ Cardinality(Calls(i, "check")) <= 1
            /\ Cardinality(Calls(i, "record")) <= 1
            /\ \A j \in OutcomesOf(i) : \A h \in (j + 1)..Len(log) : log[h].i > i
            /\ (i < idx \/ (i = idx /\ pc = "raised")) <=>
                  Cardinality(OutcomesOf(i)) = 1
            /\ Cardinality(OutcomesOf(i)) <= 1
            /\ \A j \in OutcomesOf(i) :
                  FatalEvent(log[j]) <=> (pc = "raised" /\ j = Len(log) /\ i = idx)
            /\ pc = "done" => Cardinality(OutcomesOf(i)) = 1

\* a finished sweep of three elements: one skipped after a compile failure,
\* one skipped after a launch failure in the benchmark, one recorded
C15_Witness ==
    /\ pc = "done"
    /\ Len(parameter_space) = 3
    /\ \E j \in EventsOf(1) : log[j].ev = "compile" /\ log[j].out = "raise"
    /\ \E j \in EventsOf(2) : log[j].ev = "benchmark" /\ log[j].out = "raise"
    /\ \E j \in EventsOf(3) : log[j].ev = "record"

(***************************************************************************)
(* SpecBench: OpenCLFunctions.benchmark on a device whose launches report  *)
(* the durations of profile, or fail                                       *)
(***************************************************************************)
MaxIterations == 4
MaxSample == 3
DefaultIterations == 7
NsPerUnit == 1000000

\* the sample list of the benchmark's documented example
ExampleProfile == <<5, 1, 9, 3, 4, 2, 8>>

\* line 105: (event.profile.end - event.profile.start)*1e-6
Sample(ns) == [num |-> ns, den |-> NsPerUnit]

RECURSIVE Sorted(_)
\* line 106: sorted(times), by insertion of the head into the sorted tail
Sorted(s) ==
    LET Leq(a, b) == a.num * b.den <= b.num * a.den
        RECURSIVE Insert(_, _)
        Insert(t, v) ==
            IF t = <<>> THEN <<v>>
            ELSE IF Leq(v, Head(t)) THEN <<v>> \o t
            ELSE <<Head(t)>> \o Insert(Tail(t), v)
    IN  IF s = <<>> THEN <<>> ELSE Insert(Sorted(Tail(s)), Head(s))

\* numpy.mean of samples that share the denominator NsPerUnit
Mean(s) ==
    LET RECURSIVE SumNum(_)
        SumNum(t) == IF t = <<>> THEN 0 ELSE Head(t).num + SumNum(Tail(t))
    IN  IF s = <<>> THEN NaN
        ELSE [nan |-> FALSE, num |-> SumNum(s), den |-> Len(s) * NsPerUnit]

\* mutant of RobustAverage: the list is trimmed without being sorted
AverageUnsorted(ts) == Mean(SubSeq(ts, 2, Len(ts) - 1))

\* lines 106-107: numpy.mean(sorted(times)[1:-1])
RobustAverage(ts) == Mean(SubSeq(Sorted(ts), 2, Len(ts) - 1))

Profiles(n) ==
    [1..n -> 1..MaxSample] \cup (IF n = Len(ExampleProfile) THEN {ExampleProfile} ELSE {})

InitBench ==
    /\ SweepIdle
    /\ fn_pc = "idle" /\ fn_args = <<>> /\ fn_ret = <<>>
    /\ dev_i = 0 /\ dev_err = None
    /\ arguments = <<>> /\ expected = <<>> /\ device_args = <<>> /\ staged = <<>>
    /\ host_out = <<>> /\ correct = TRUE
    /\ ITERATIONS \in (0..MaxIterations) \cup {DefaultIterations}
    /\ profile \in Profiles(ITERATIONS)
    /\ dev_pc = "bench" /\ launches = 0 /\ times = <<>> /\ bench_ret = NaN

\* lines 102-105: one launch, waited for and timed
BenchLaunch ==
    /\ dev_pc = "bench"
    /\ launches < ITERATIONS
    /\ launches' = launches + 1
    /\ times' = Append(times, Sample(profile[launches + 1]))
    /\ UNCHANGED <<sweepVars, fnVars, memVars, dev_pc, dev_i, dev_err, ITERATIONS,
                   profile, bench_ret>>

\* lines 103-104: the launch raises and the exception leaves benchmark
BenchLaunchRaise ==
    /\ dev_pc = "bench"
    /\ launches < ITERATIONS
    /\ \E msg \in BackendMessages : dev_err' = msg
    /\ dev_pc' = "raised"
    /\ UNCHANGED <<sweepVars, fnVars, memVars, dev_i, launches, benchVars>>

\* lines 106-107: the loop is over
BenchReturn ==
    /\ dev_pc = "bench"
    /\ launches = ITERATIONS
    /\ times' = Sorted(times)
    /\ bench_ret' = RobustAverage(times)
    /\ dev_pc' = "done"
    /\ UNCHANGED <<sweepVars, fnVars, memVars, dev_i, dev_err, launches, ITERATIONS,
                   profile>>

NextBench == BenchLaunch \/ BenchLaunchRaise \/ BenchReturn

SpecBench == InitBench /\ [][NextBench]_vars

RECURSIVE SumSeq(_)
SumSeq(s) == IF s = <<>> THEN 0 ELSE Head(s) + SumSeq(Tail(s))

SmallestOf(s) == CHOOSE v \in {s[n] : n \in 1..Len(s)} : \A n \in 1..Len(s) : v <= s[n]
LargestOf(s) == CHOOSE v \in {s[n] : n \in 1..Len(s)} : \A n \in 1..Len(s) : v >= s[n]

\* C11: benchmark launches the kernel exactly ITERATIONS times and, for
\* ITERATIONS >= 3, returns the arithmetic mean of the samples left after one
\* smallest and one largest sample have been removed (ties removed once).
C11_TrimmedMean ==
    /\ dev_pc \in {"bench", "done", "raised"} =>
          launches <= ITERATIONS /\ Len(times) = launches
    /\ dev_pc = "done" =>
          /\ launches = ITERATIONS
          /\ ITERATIONS >= 3 =>
                /\ ~bench_ret.nan
                /\ bench_ret.num =
                      SumSeq(profile) - SmallestOf(profile) - LargestOf(profile)
                /\ bench_ret.den = (ITERATIONS - 2) * NsPerUnit

\* the documented example: 7 launches of [5,1,9,3,4,2,8] give the mean of
\* {2,3,4,5,8}, 22/5
C11_Witness ==
    /\ dev_pc = "done"
    /\ ITERATIONS = DefaultIterations
    /\ profile = ExampleProfile
    /\ launches = 7
    /\ bench_ret = [nan |-> FALSE, num |-> 22, den |-> 5 * NsPerUnit]

(***************************************************************************)
(* Device memory of the OpenCL backend.  A device argument is a cl.Buffer  *)
(* of Len(data) elements of itemsize bytes each, or a scalar passed by     *)
(* value; element values are small integers.                               *)
(***************************************************************************)
\* numpy.array(0).nbytes: the fill pattern is one 64-bit integer
PatternSize == 8

Buffer(itemsize, data) == [array |-> TRUE, itemsize |-> itemsize, data |-> data]
Scalar(v) == [array |-> FALSE, itemsize |-> 4, data |-> <<v>>]

Zeros(n) == [i \in 1..n |-> 0]

\* the contents a launch may leave in a buffer of n elements: all zero, all
\* one, or one in the last element only
Patterns(n) ==
    {Zeros(n), [i \in 1..n |-> 1], [i \in 1..n |-> IF i = n THEN 1 ELSE 0]}

\* numpy.zeros_like(a)
ZerosLike(a) == [a EXCEPT !.data = Zeros(Len(a.data))]

ClFillError == <<"clEnqueueFillBuffer failed: INVALID_VALUE">>

\* cl.enqueue_fill_buffer(queue, buffer, pattern, offset, size) with a pattern
\* of PatternSize bytes all equal to the bytes of value (0 at its call site):
\* size counts bytes and must be a multiple of the pattern size
FillBuffer(buffer, value, size) ==
    IF size % PatternSize # 0 \/ size > Len(buffer.data) * buffer.itemsize
    THEN [raise |-> TRUE, buf |-> buffer]
    ELSE [raise |-> FALSE,
          buf |-> [buffer EXCEPT !.data =
                      [i \in 1..Len(buffer.data) |->
                          IF i * buffer.itemsize <= size THEN value
                          ELSE buffer.data[i]]]]

\* opencl.py lines 146-147
memset(buffer, value, size) ==
    IF buffer.array THEN FillBuffer(buffer, value, size)
    ELSE [raise |-> FALSE, buf |-> buffer]

\* opencl.py lines 158-159: what dest holds after the call
memcpy_dtoh(dest, src) == IF src.array THEN [dest EXCEPT !.data = src.data] ELSE dest

\* numpy.allclose(a, b, atol=1e-6) with the default rtol=1e-5:
\* |a - b| <= atol + rtol * |b| holds for every element
Allclose(a, b) ==
    LET Abs(x) == IF x < 0 THEN -x ELSE x
    IN  /\ Len(a) = Len(b)
        /\ \A n \in 1..Len(a) : 1000000 * Abs(a[n] - b[n]) <= 1 + 10 * Abs(b[n])

\* what one launch may do to the device arguments: every buffer keeps its
\* contents or gets new ones, scalars are passed by value
AfterLaunch(args) ==
    {a \in [1..Len(args) ->
               UNION {{args[n]} \cup {Buffer(args[n].itemsize, d) :
                                       d \in Patterns(Len(args[n].data))} :
                      n \in 1..Len(args)}] :
        \A n \in 1..Len(args) :
            /\ a[n].array = args[n].array
            /\ a[n].itemsize = args[n].itemsize
            /\ Len(a[n].data) = Len(args[n].data)
            /\ ~args[n].array => a[n] = args[n]}

(***************************************************************************)
(* SpecVerify: _check_kernel_correctness with an OpenCLFunctions device    *)
(***************************************************************************)
MaxElems == 8

\* gpu_args and answer: every argument is a device buffer as an earlier
\* launch left it or a scalar, with an absent answer entry or an answer of
\* the argument's shape; the second argument, if any, is a scalar or a
\* buffer of PatternSize 4-byte elements
VerifyInputs ==
    LET Absent == [present |-> FALSE, data |-> <<>>]
        Present(data) == [present |-> TRUE, data |-> data]
        Ones(n) == [i \in 1..n |-> 1]
        Case(dev, exp) == [dev |-> dev, exp |-> exp]
        ArrayCases ==
            {Case(Buffer(itemsize, d), e) :
                itemsize \in {1, 4},
                d \in UNION {Patterns(n) : n \in 1..MaxElems},
                e \in {Absent} \cup UNION {{Present(Zeros(n)), Present(Ones(n))} :
                                             n \in 1..MaxElems}}
        ScalarCases ==
            {Case(Scalar(1), e) : e \in {Absent, Present(<<0>>), Present(<<1>>)}}
        WellShaped(c) == c.exp.present => Len(c.exp.data) = Len(c.dev.data)
        FirstCases == {c \in ArrayCases \cup ScalarCases : WellShaped(c)}
        SecondCases ==
            ScalarCases \cup
            {Case(Buffer(4, Ones(PatternSize)), e) :
                e \in {Absent, Present(Zeros(PatternSize))}}
    IN  {<<c>> : c \in FirstCases} \cup (FirstCases \X SecondCases)

InitVerify ==
    /\ SweepIdle
    /\ fn_pc = "idle" /\ fn_args = <<>> /\ fn_ret = <<>>
    /\ ITERATIONS = 0 /\ profile = <<>> /\ times = <<>> /\ bench_ret = NaN
    /\ arguments = <<>>
    /\ \E cases \in VerifyInputs :
          /\ device_args = [n \in 1..Len(cases) |-> cases[n].dev]
          /\ expected = [n \in 1..Len(cases) |-> cases[n].exp]
    /\ staged = device_args
    /\ dev_pc = "memset" /\ dev_i = 1 /\ dev_err = None
    /\ host_out = <<>> /\ launches = 0 /\ correct = TRUE

\* lines 517-519: one iteration of the loop that zeroes the outputs
VerifyMemset ==
    /\ dev_pc = "memset"
    /\ LET r == IF expected[dev_i].present
                THEN memset(device_args[dev_i], 0, Len(expected[dev_i].data))
                ELSE [raise |-> FALSE, buf |-> device_args[dev_i]]
       IN  IF r.raise
           THEN /\ dev_pc' = "raised"
                /\ dev_err' = ClFillError
                /\ UNCHANGED <<device_args, dev_i>>
           ELSE /\ device_args' = [device_args EXCEPT ![dev_i] = r.buf]
                /\ dev_i' = dev_i + 1
                /\ dev_pc' = IF dev_i = Len(device_args) THEN "launch" ELSE "memset"
                /\ UNCHANGED dev_err
    /\ UNCHANGED <<sweepVars, fnVars, benchVars, arguments, expected, staged,
                   host_out, launches, correct>>

\* line 520: dev.run_kernel returns
VerifyLaunch ==
    /\ dev_pc = "launch"
    /\ device_args' \in AfterLaunch(device_args)
    /\ launches' = launches + 1
    /\ dev_i' = 1
    /\ dev_pc' = "compare"
    /\ UNCHANGED <<sweepVars, fnVars, benchVars, arguments, expected, staged,
                   host_out, correct, dev_err>>

\* line 520: dev.run_kernel raises
VerifyLaunchRaise ==
    /\ dev_pc = "launch"
    /\ \E msg \in BackendMessages : dev_err' = msg
    /\ dev_pc' = "raised"
    /\ UNCHANGED <<sweepVars, fnVars, benchVars, memVars, dev_i, launches>>

\* lines 522-526: one iteration of the loop that compares the outputs
VerifyCompare ==
    /\ dev_pc = "compare"
    /\ IF expected[dev_i].present
       THEN LET zeros == [array |-> TRUE, itemsize |-> device_args[dev_i].itemsize,
                          data |-> Zeros(Len(expected[dev_i].data))]
                result_host == memcpy_dtoh(zeros, device_args[dev_i])
            IN  /\ host_out' = Append(host_out, result_host.data)
                /\ correct' = (correct /\ Allclose(result_host.data,
                                                    expected[dev_i].data))
       ELSE /\ host_out' = Append(host_out, <<>>)
            /\ UNCHANGED correct
    /\ dev_i' = dev_i + 1
    /\ dev_pc' = IF dev_i = Len(device_args) THEN "check" ELSE "compare"
    /\ UNCHANGED <<sweepVars, fnVars, benchVars, arguments, expected, device_args,
                   staged, launches, dev_err>>

\* lines 527-529: raise on a mismatch, return otherwise
VerifyReturn ==
    /\ dev_pc = "check"
    /\ IF correct
       THEN dev_pc' = "done" /\ UNCHANGED dev_err
       ELSE dev_pc' = "raised" /\ dev_err' = CorrectnessMessage(<<"128">>)
    /\ UNCHANGED <<sweepVars, fnVars, benchVars, memVars, dev_i, launches>>

NextVerify ==
    \/ VerifyMemset \/ VerifyLaunch \/ VerifyLaunchRaise
    \/ VerifyCompare \/ VerifyReturn

SpecVerify == InitVerify /\ [][NextVerify]_vars

\* C16: when the verification launch starts, every device buffer whose
\* answer entry is present holds only zeros, whatever an earlier launch
\* wrote into it, and every device argument whose answer entry is absent is
\* as it was; the kernel is executed exactly once before the comparisons.
C16_Original ==
    /\ dev_pc = "launch" =>
          \A n \in 1..Len(device_args) :
              /\ (expected[n].present /\ device_args[n].array) =>
                    device_args[n].data = Zeros(Len(device_args[n].data))
              /\ ~expected[n].present => device_args[n] = staged[n]
    /\ dev_pc \in {"memset", "launch"} => launches = 0
    /\ dev_pc \in {"compare", "check", "done"} => launches = 1

(***************************************************************************)
(* SpecRun: run_kernel of interface.py.  With lang = "OpenCL" the device   *)
(* operations are those of opencl.py; the accelerator backend stages the   *)
(* arguments and copies them back as its contract says.                    *)
(***************************************************************************)
\* the accelerator backend's ready_argument_list: a device buffer holding a
\* copy of every array, scalars passed along
ready_argument_list(args) ==
    [n \in 1..Len(args) |->
        IF args[n].array THEN Buffer(args[n].itemsize, args[n].data) ELSE args[n]]

\* the accelerator backend's copy to the host: dest holds the value of src
copy_to_host(dest, src) == [dest EXCEPT !.data = src.data]

\* dev.memcpy_dtoh(dest, src) on the device interface of language l
DeviceCopy(l, dest, src) ==
    IF l = "OpenCL" THEN memcpy_dtoh(dest, src) ELSE copy_to_host(dest, src)

\* arguments: one or two host arguments, each a numpy array or a numpy scalar
RunInputs ==
    LET HostArrays ==
            {Buffer(itemsize, d) : itemsize \in {1, 4},
                                   d \in UNION {Patterns(n) : n \in 1..MaxElems}}
        HostScalars == {Scalar(0), Scalar(1)}
    IN  {<<a>> : a \in HostArrays \cup HostScalars}
        \cup ((HostArrays \cup HostScalars)
                \X (HostScalars \cup {Buffer(4, <<1, 1>>)}))

\* the single configuration passed as params
RunParams == {<<P("block_size_x", PyInt(1))>>, <<P("block_size_x", PyInt(0))>>}

InitRun ==
    /\ tune_params = <<>> /\ restrictions = NoList /\ answer = FALSE
    /\ grid_div_x = NoList /\ grid_div_y = NoList /\ cmem_args = FALSE
    /\ max_threads = 0 /\ pc = "idle"
    /\ lang \in Languages
    /\ parameter_space = <<>> /\ fi = 0 /\ idx = 0 /\ func = None /\ time = 0
    /\ results = {} /\ error = None /\ gpu_args = None /\ log = <<>>
    /\ fn_pc = "idle" /\ fn_ret = <<>>
    /\ \E params \in RunParams : fn_args = [params |-> params]
    /\ ITERATIONS = 0 /\ profile = <<>> /\ times = <<>> /\ bench_ret = NaN
    /\ arguments \in RunInputs
    /\ expected = <<>> /\ device_args = <<>> /\ staged = <<>>
    /\ dev_pc = "ready" /\ dev_i = 0 /\ dev_err = None
    /\ host_out = <<>> /\ launches = 0 /\ correct = TRUE

\* lines 427-429: the device interface has ready_argument_list
RunReady ==
    /\ dev_pc = "ready"
    /\ HasAttr(lang, "ready_argument_list")
    /\ device_args' = ready_argument_list(arguments)
    /\ staged' = ready_argument_list(arguments)
    /\ dev_pc' = "compile"
    /\ UNCHANGED <<sweepVars, fnVars, benchVars, arguments, expected, host_out,
                   correct, dev_i, dev_err, launches>>

\* line 429: the lookup of ready_argument_list raises AttributeError
RunReadyRaise ==
    /\ dev_pc = "ready"
    /\ ~HasAttr(lang, "ready_argument_list")
    /\ dev_err' = AttributeErrorMessage(lang, "ready_argument_list")
    /\ dev_pc' = "raised"
    /\ UNCHANGED <<sweepVars, fnVars, benchVars, memVars, dev_i, launches>>

\* lines 432-437: thread block, grid, kernel string, and dev.compile returns
RunCompile ==
    /\ dev_pc = "compile"
    /\ LET grid == _get_grid_dimensions(problem_size, fn_args.params, NoList, NoList)
       IN  IF grid.raise
           THEN dev_pc' = "raised" /\ dev_err' = GridErrorMessage
           ELSE dev_pc' = "launch" /\ UNCHANGED dev_err
    /\ UNCHANGED <<sweepVars, fnVars, benchVars, memVars, dev_i, launches>>

\* line 437: dev.compile raises
RunCompileRaise ==
    /\ dev_pc = "compile"
    /\ ~_get_grid_dimensions(problem_size, fn_args.params, NoList, NoList).raise
    /\ \E msg \in BackendMessages : dev_err' = msg
    /\ dev_pc' = "raised"
    /\ UNCHANGED <<sweepVars, fnVars, benchVars, memVars, dev_i, launches>>

\* line 439: dev.run_kernel returns
RunLaunch ==
    /\ dev_pc = "launch"
    /\ device_args' \in AfterLaunch(device_args)
    /\ launches' = launches + 1
    /\ dev_i' = 1
    /\ dev_pc' = "copy"
    /\ UNCHANGED <<sweepVars, fnVars, benchVars, arguments, expected, staged,
                   host_out, correct, dev_err>>

\* line 439: dev.run_kernel raises
RunLaunchRaise ==
    /\ dev_pc = "launch"
    /\ \E msg \in BackendMessages : dev_err' = msg
    /\ dev_pc' = "raised"
    /\ UNCHANGED <<sweepVars, fnVars, benchVars, memVars, dev_i, launches>>

\* lines 442-446: one iteration of the copy-back loop; after the last one
\* results is returned
RunCopy ==
    /\ dev_pc = "copy"
    /\ host_out' = Append(host_out,
                          DeviceCopy(lang, ZerosLike(arguments[dev_i]),
                                     device_args[dev_i]))
    /\ dev_i' = dev_i + 1
    /\ dev_pc' = IF dev_i = Len(arguments) THEN "done" ELSE "copy"
    /\ UNCHANGED <<sweepVars, fnVars, benchVars, arguments, expected, device_args,
                   staged, correct, dev_err, launches>>

NextRun ==
    \/ RunReady \/ RunReadyRaise
    \/ RunCompile \/ RunCompileRaise
    \/ RunLaunch \/ RunLaunchRaise
    \/ RunCopy

SpecRun == InitRun /\ [][NextRun]_vars

\* C14: run_kernel returns a list with one entry per argument, in argument
\* order; entry i is the host-side value of argument i after exactly one
\* launch: the contents of the device buffer for an array, the value passed
\* for a scalar.  A call does not end on a missing device operation.
C14_Original ==
    /\ dev_pc = "raised" => ~IsAttributeError(dev_err)
    /\ dev_pc = "done" =>
          /\ launches = 1
          /\ Len(host_out) = Len(arguments)
          /\ \A n \in 1..Len(arguments) :
                host_out[n].data = IF arguments[n].array THEN device_args[n].data
                                   ELSE arguments[n].data

====
